---- MODULE Spec2Model ----
(***************************************************************************)
(* Model of src/src/neuron.rs: neurons that aggregate the impulses of      *)
(* their synapses by a threshold-gated greedy selection, store the result  *)
(* in a two-slot buffer (one slot per ChargeCycle) and adapt the synapse   *)
(* weights by a local learning rule.                                       *)
(*                                                                         *)
(* Numbers.  The source computes in f32.  The model computes exactly, on   *)
(* a decimal grid: a weight, a fire_threshold and a max_synapse_weight are *)
(* integers counting tenths (80 is 8.0, and the literal 0.1 of line 250 is *)
(* 1); a measure and a learning_constant are whole numbers.  With these    *)
(* units learning_constant * (max - weight) * measure is again a number of *)
(* tenths, so no rounding is needed.  NaN and infinities are not modelled. *)
(***************************************************************************)
EXTENDS Integers, Sequences, FiniteSets, TLC

\* ------------------------------------------------------------- the circuit

Neurons == {"n1", "n2"}
Sensors == {"s1"}
Inputs == Neurons \cup Sensors

Cycles == {"Even", "Odd"}
SynapticTypes == {"Excitatory", "Inhibitory"}

\* 0.1, in tenths
JustUnder == 1

\* ------------------------------------------------------------- bounds

MaxSynapses == 3
MaxOps == 2
MaxRuns == 1
StartingWeights == {60, 80}
SensorMeasures == {1, 2}

\* ------------------------------------------------------------- state

\* Neuron: fire_threshold, max_synapse_weight, learning_constant, synapses,
\* internal_measure, each a function of the neuron.  NeuronicSensor: measure.
\* panicked: a panic (the unwrap of line 237) has ended the program.
\* last: the call the driver made last: its name, the neuron or sensor it was
\* made on, its cycle, its other arguments (arg), the value it returned
\* (returned, empty when it returns nothing) and whether it repeats the call
\* before it (twice).  ops: the number of calls made.
VARIABLES fire_threshold, max_synapse_weight, learning_constant,
          synapses, internal_measure, measure, panicked, last, ops

vars == <<fire_threshold, max_synapse_weight, learning_constant,
          synapses, internal_measure, measure, panicked, last, ops>>

\* The program state an operation works on.
World == [fire_threshold |-> fire_threshold,
          max_synapse_weight |-> max_synapse_weight,
          learning_constant |-> learning_constant,
          synapses |-> synapses, internal_measure |-> internal_measure,
          measure |-> measure, panicked |-> panicked]

\* ------------------------------------------------------------- ChargeCycle

\* (mutant) the cycle itself: no flip
prev_cycle_same(cycle) == cycle

prev_cycle(cycle) == IF cycle = "Even" THEN "Odd" ELSE "Even"

next_cycle(cycle) == prev_cycle(cycle)

\* ------------------------------------------------------------- Impulse

Impulse(m, w) == [measure |-> m, weight |-> w]

\* (mutant) the comparison reversed: the heap yields the smallest measure first
impulse_le_reversed(a, b) == a.measure >= b.measure

\* a <= b of PartialOrd for Impulse: the measures alone are compared
impulse_le(a, b) == a.measure <= b.measure

\* ------------------------------------------------------------- NeuronicInput

InternalMeasure_get_measure(im, cycle) == im[cycle]

\* (mutant) the value is written to both slots
InternalMeasure_set_measure_both(im, cycle, m) == [c \in Cycles |-> m]

\* (mutant) the value is added to what the slot holds
InternalMeasure_set_measure_add(im, cycle, m) == [im EXCEPT ![cycle] = im[cycle] + m]

InternalMeasure_set_measure(im, cycle, m) == [im EXCEPT ![cycle] = m]

\* (mutant) only the Even slot is reset
InternalMeasure_clear_even(im) == [im EXCEPT !["Even"] = 0]

InternalMeasure_clear(im) == [c \in Cycles |-> 0]

\* get_measure of a Neuron (its buffer slot) or of a NeuronicSensor (its value,
\* whatever the cycle)
get_measure(w, input, cycle) ==
    IF input \in Sensors
    THEN w.measure[input]
    ELSE InternalMeasure_get_measure(w.internal_measure[input], cycle)

\* ------------------------------------------------------------- Synapse

Synapse_new(weight, synaptic_type, neuron) ==
    [weight |-> weight, synaptic_type |-> synaptic_type,
     pre_synaptic_neuron |-> neuron, last_impulse |-> <<>>]

\* (mutant) the source is read for the cycle being aggregated, not the one before
generate_impulse_current(w, synapse, cycle) ==
    LET m == get_measure(w, synapse.pre_synaptic_neuron, cycle)
    IN  IF synapse.synaptic_type = "Excitatory"
        THEN Impulse(m, synapse.weight)
        ELSE Impulse(m, (-1) * synapse.weight)

\* (mutant) the weight of the impulse is the value read scaled by the weight
generate_impulse_scaled(w, synapse, cycle) ==
    LET m == get_measure(w, synapse.pre_synaptic_neuron, prev_cycle(cycle))
    IN  IF synapse.synaptic_type = "Excitatory"
        THEN Impulse(m, m * synapse.weight)
        ELSE Impulse(m, (-1) * m * synapse.weight)

\* The impulse generate_impulse returns (and caches in last_impulse).
generate_impulse(w, synapse, cycle) ==
    LET m == get_measure(w, synapse.pre_synaptic_neuron, prev_cycle(cycle))
    IN  IF synapse.synaptic_type = "Excitatory"
        THEN Impulse(m, synapse.weight)
        ELSE Impulse(m, (-1) * synapse.weight)

\* ------------------------------------------------------------- BinaryHeap<Impulse>
\* std's binary max-heap over a vector; positions are 0-based as in std.

At(data, pos) == data[pos + 1]

Swap(data, i, j) == [data EXCEPT ![i + 1] = data[j + 1], ![j + 1] = data[i + 1]]

RECURSIVE sift_up(_, _, _)
sift_up(data, start, pos) ==
    IF pos > start
    THEN LET parent == (pos - 1) \div 2
         IN  IF impulse_le(At(data, pos), At(data, parent))
             THEN data
             ELSE sift_up(Swap(data, pos, parent), start, parent)
    ELSE data

RECURSIVE sift_down_loop(_, _, _)
sift_down_loop(data, pos, child) ==
    LET end == Len(data)
    IN  IF end >= 2 /\ child <= end - 2
        THEN LET c == IF impulse_le(At(data, child), At(data, child + 1))
                      THEN child + 1 ELSE child
             IN  sift_down_loop(Swap(data, pos, c), c, 2 * c + 1)
        ELSE IF child = end - 1
             THEN [data |-> Swap(data, pos, child), pos |-> child]
             ELSE [data |-> data, pos |-> pos]

sift_down_to_bottom(data, pos) ==
    LET r == sift_down_loop(data, pos, 2 * pos + 1)
    IN  sift_up(r.data, pos, r.pos)

heap_push(data, item) == sift_up(Append(data, item), 0, Len(data))

\* pop of a non-empty heap: the item returned and the heap left
heap_pop(data) ==
    LET item == data[Len(data)]
        rest == SubSeq(data, 1, Len(data) - 1)
    IN  IF rest = <<>>
        THEN [item |-> item, heap |-> <<>>]
        ELSE [item |-> rest[1],
              heap |-> sift_down_to_bottom([rest EXCEPT ![1] = item], 0)]

\* ------------------------------------------------------------- Neuron

\* lines 208-210: every synapse generates its impulse, in list order, and
\* the impulses are pushed on the heap
RECURSIVE push_all(_, _)
push_all(heap, impulses) ==
    IF impulses = <<>>
    THEN heap
    ELSE push_all(heap_push(heap, Head(impulses)), Tail(impulses))

\* (mutant) the running total is stored, not the measure of the impulse
RECURSIVE fire_loop_total(_, _, _)
fire_loop_total(heap, total_weight, threshold) ==
    IF heap = <<>>
    THEN 0
    ELSE LET p == heap_pop(heap)
             total == total_weight + p.item.weight
         IN  IF total >= threshold
             THEN total
             ELSE fire_loop_total(p.heap, total, threshold)

\* (mutant) an empty heap fires when the total already meets the threshold
RECURSIVE fire_loop_gate(_, _, _)
fire_loop_gate(heap, total_weight, threshold) ==
    IF heap = <<>>
    THEN IF total_weight >= threshold THEN 1 ELSE 0
    ELSE LET p == heap_pop(heap)
             total == total_weight + p.item.weight
         IN  IF total >= threshold
             THEN p.item.measure
             ELSE fire_loop_gate(p.heap, total, threshold)

\* lines 214-228: the value set_measure is called with
RECURSIVE fire_loop(_, _, _)
fire_loop(heap, total_weight, threshold) ==
    IF heap = <<>>
    THEN 0
    ELSE LET p == heap_pop(heap)
             total == total_weight + p.item.weight
         IN  IF total >= threshold
             THEN p.item.measure
             ELSE fire_loop(p.heap, total, threshold)

\* lines 194-203: run_static_cycle holds internal_measure.borrow_mut() of its
\* neuron until it returns, and get_measure of a Neuron takes
\* internal_measure.borrow(): a synapse whose source is the neuron that is
\* aggregating meets a RefCell already mutably borrowed, and borrow() panics.
BorrowError(n, synapse) == synapse.pre_synaptic_neuron = n

\* (mutant) a synapse that has generated an impulse is worn: its weight drops
\* by 0.1
run_static_cycle_wear(w, n, cycle) ==
    LET old == w.synapses[n]
        errs == {i \in 1..Len(old) : BorrowError(n, old[i])}
    IN  IF errs # {}
        THEN [w EXCEPT !.panicked = TRUE]
        ELSE LET impulses == [i \in 1..Len(old) |-> generate_impulse(w, old[i], cycle)]
                 new == [i \in 1..Len(old) |->
                            [old[i] EXCEPT !.last_impulse = <<impulses[i]>>,
                                           !.weight = IF @ > 0 THEN @ - JustUnder ELSE @]]
                 heap == push_all(<<>>, impulses)
                 fired == fire_loop(heap, 0, w.fire_threshold[n])
             IN  [w EXCEPT !.synapses[n] = new,
                           !.internal_measure[n] =
                               InternalMeasure_set_measure(w.internal_measure[n], cycle, fired)]

\* The synapses generate their impulses in list order (lines 208-210); the
\* first whose source is n itself panics in get_measure, before it caches
\* anything, and the buffer is left as it was.  Otherwise the selection loop
\* runs (lines 214-228) and its result is stored.
run_static_cycle(w, n, cycle) ==
    LET old == w.synapses[n]
        errs == {i \in 1..Len(old) : BorrowError(n, old[i])}
    IN  IF errs # {}
        THEN LET first == CHOOSE i \in errs : \A j \in errs : i <= j
             IN  [w EXCEPT !.synapses[n] =
                               [i \in 1..Len(old) |->
                                   IF i < first
                                   THEN [old[i] EXCEPT !.last_impulse =
                                            <<generate_impulse(w, old[i], cycle)>>]
                                   ELSE old[i]],
                           !.panicked = TRUE]
        ELSE LET impulses == [i \in 1..Len(old) |-> generate_impulse(w, old[i], cycle)]
                 new == [i \in 1..Len(old) |->
                            [old[i] EXCEPT !.last_impulse = <<impulses[i]>>]]
                 heap == push_all(<<>>, impulses)
                 fired == fire_loop(heap, 0, w.fire_threshold[n])
             IN  [w EXCEPT !.synapses[n] = new,
                           !.internal_measure[n] =
                               InternalMeasure_set_measure(w.internal_measure[n], cycle, fired)]

\* (mutant) the two branches taken the wrong way round
updated_weight_swapped(lc, max, weight, synapse_measure, fired_measure) ==
    IF synapse_measure >= fired_measure
    THEN weight + lc * (max - weight) * synapse_measure
    ELSE weight + lc * (max - weight) * ((2 * fired_measure) - synapse_measure)

\* lines 239-247: the weight after the spring update, before clamping
updated_weight(lc, max, weight, synapse_measure, fired_measure) ==
    IF synapse_measure < fired_measure
    THEN weight + lc * (max - weight) * synapse_measure
    ELSE weight + lc * (max - weight) * ((2 * fired_measure) - synapse_measure)

\* (mutant) a weight over the maximum is set to the maximum itself
clamp_weight_at_max(max, weight) ==
    IF weight > max
    THEN max
    ELSE IF weight < 0 THEN 0 ELSE weight

\* (mutant) a weight that has reached the maximum is pulled just under it
clamp_weight_inclusive(max, weight) ==
    IF weight >= max
    THEN max - JustUnder
    ELSE IF weight < 0 THEN 0 ELSE weight

\* lines 249-253
clamp_weight(max, weight) ==
    IF weight > max
    THEN max - JustUnder
    ELSE IF weight < 0 THEN 0 ELSE weight

\* (mutant) a synapse without a cached impulse is passed over
RECURSIVE update_loop_skip(_, _, _, _, _)
update_loop_skip(lc, max, syns, i, fired_measure) ==
    IF i > Len(syns)
    THEN [synapses |-> syns, panicked |-> FALSE]
    ELSE IF syns[i].last_impulse = <<>>
         THEN update_loop_skip(lc, max, syns, i + 1, fired_measure)
         ELSE LET m == syns[i].last_impulse[1].measure
                  wt == clamp_weight(max, updated_weight(lc, max, syns[i].weight, m, fired_measure))
              IN  update_loop_skip(lc, max, [syns EXCEPT ![i].weight = wt], i + 1, fired_measure)

\* lines 236-254: the loop over the synapses from position i on; unwrap of an
\* empty last_impulse panics and leaves the earlier synapses updated
RECURSIVE update_loop(_, _, _, _, _)
update_loop(lc, max, syns, i, fired_measure) ==
    IF i > Len(syns)
    THEN [synapses |-> syns, panicked |-> FALSE]
    ELSE IF syns[i].last_impulse = <<>>
         THEN [synapses |-> syns, panicked |-> TRUE]
         ELSE LET m == syns[i].last_impulse[1].measure
                  wt == clamp_weight(max, updated_weight(lc, max, syns[i].weight, m, fired_measure))
              IN  update_loop(lc, max, [syns EXCEPT ![i].weight = wt], i + 1, fired_measure)

\* (mutant) the learning step uses up the output: slot P is reset
update_synapses_consume(w, n, cycle) ==
    LET fired_measure == InternalMeasure_get_measure(w.internal_measure[n], cycle)
        r == update_loop(w.learning_constant[n], w.max_synapse_weight[n],
                         w.synapses[n], 1, fired_measure)
    IN  [w EXCEPT !.synapses[n] = r.synapses, !.panicked = r.panicked,
                  !.internal_measure[n] =
                      InternalMeasure_set_measure(w.internal_measure[n], cycle, 0)]

update_synapses(w, n, cycle) ==
    LET fired_measure == InternalMeasure_get_measure(w.internal_measure[n], cycle)
        r == update_loop(w.learning_constant[n], w.max_synapse_weight[n],
                         w.synapses[n], 1, fired_measure)
    IN  [w EXCEPT !.synapses[n] = r.synapses, !.panicked = r.panicked]

\* lines 34-37; a panic in run_static_cycle ends the call
run_cycle(w, n, cycle) ==
    LET w1 == run_static_cycle(w, n, cycle)
    IN  IF w1.panicked THEN w1 ELSE update_synapses(w1, n, cycle)

\* (mutant) the cached impulses are dropped with the buffer
clear_all(w, n) ==
    [w EXCEPT !.internal_measure[n] = InternalMeasure_clear(w.internal_measure[n]),
              !.synapses[n] = [i \in 1..Len(w.synapses[n]) |->
                                  [w.synapses[n][i] EXCEPT !.last_impulse = <<>>]]]

clear(w, n) == [w EXCEPT !.internal_measure[n] = InternalMeasure_clear(w.internal_measure[n])]

\* (mutant) the new synapse is put at the front of the list
create_synapse_front(w, n, starting_weight, synaptic_type, input) ==
    [w EXCEPT !.synapses[n] =
        <<Synapse_new(starting_weight, synaptic_type, input)>> \o w.synapses[n]]

create_synapse(w, n, starting_weight, synaptic_type, input) ==
    [w EXCEPT !.synapses[n] =
        Append(w.synapses[n], Synapse_new(starting_weight, synaptic_type, input))]

\* (mutant) the sensor keeps the larger of its value and the new one
set_measure_max(w, s, m) ==
    IF m > w.measure[s] THEN [w EXCEPT !.measure[s] = m] ELSE w

\* NeuronicSensor::set_measure
set_measure(w, s, m) == [w EXCEPT !.measure[s] = m]

\* (mutant) a read of a neuron aggregates it first
NeuronicInput_get_measure_recompute(w, input, cycle) ==
    IF input \in Sensors
    THEN [world |-> w, value |-> w.measure[input]]
    ELSE LET w1 == run_static_cycle(w, input, cycle)
         IN  [world |-> w1, value |-> get_measure(w1, input, cycle)]

\* A call of get_measure by the driver: the program state it leaves (&self,
\* and a shared borrow of the RefCell: nothing is written) and the value it
\* returns.
NeuronicInput_get_measure(w, input, cycle) ==
    [world |-> w, value |-> get_measure(w, input, cycle)]

\* ------------------------------------------------------------- the driver

\* The driver of the tests (test_multiple_neurons): every neuron is ticked
\* once on the same cycle, in some order, with or without learning.
Orders == {o \in [1..Cardinality(Neurons) -> Neurons] :
              \A i, j \in DOMAIN o : i # j => o[i] # o[j]}

RECURSIVE tick(_, _, _, _)
tick(w, order, cycle, learning) ==
    IF order = <<>> \/ w.panicked
    THEN w
    ELSE tick(IF learning
              THEN run_cycle(w, Head(order), cycle)
              ELSE run_static_cycle(w, Head(order), cycle),
              Tail(order), cycle, learning)

\* ------------------------------------------------------------- specification

\* Neuron::new for every neuron, with the parameters th, mx, lc, and
\* NeuronicSensor::new for every sensor
New(th, mx, lc) ==
    [fire_threshold |-> th, max_synapse_weight |-> mx, learning_constant |-> lc,
     synapses |-> [n \in Neurons |-> <<>>],
     internal_measure |-> [n \in Neurons |-> [c \in Cycles |-> 0]],
     measure |-> [s \in Sensors |-> 0],
     panicked |-> FALSE]

\* The program is in state w.
Becomes(w) ==
    /\ fire_threshold' = w.fire_threshold
    /\ max_synapse_weight' = w.max_synapse_weight
    /\ learning_constant' = w.learning_constant
    /\ synapses' = w.synapses
    /\ internal_measure' = w.internal_measure
    /\ measure' = w.measure
    /\ panicked' = w.panicked

Starts(w) ==
    /\ fire_threshold = w.fire_threshold
    /\ max_synapse_weight = w.max_synapse_weight
    /\ learning_constant = w.learning_constant
    /\ synapses = w.synapses
    /\ internal_measure = w.internal_measure
    /\ measure = w.measure
    /\ panicked = w.panicked
    /\ last = [op |-> "new", on |-> "-", cycle |-> "-", arg |-> <<>>,
               returned |-> <<>>, twice |-> FALSE]
    /\ ops = 0

\* ------------------------------------------------------------- built circuits

SynapseArgs == [weight : StartingWeights, synaptic_type : SynapticTypes, input : Inputs]

Scripts == UNION {[1..k -> SynapseArgs] : k \in 0..MaxSynapses}

RECURSIVE build(_, _, _)
build(w, n, script) ==
    IF script = <<>>
    THEN w
    ELSE build(create_synapse(w, n, Head(script).weight, Head(script).synaptic_type,
                              Head(script).input),
               n, Tail(script))

\* The neurons and the sensor just created.  The parameters of the tests for
\* n1 (fire_threshold 10., max_synapse_weight 8., and learning_constant 3.
\* unless lc1 says otherwise); n2 fires on one synapse and learns at 1.
Fresh(lc1) ==
    New([n \in Neurons |-> IF n = "n1" THEN 100 ELSE 60],
        [n \in Neurons |-> 80],
        [n \in Neurons |-> IF n = "n1" THEN lc1 ELSE 1])

\* The circuit after these calls: n2 gets a synapse from s1 and one from n1
\* and is ticked on Odd while s1 reads a (so n2 stores a for Odd), s1 is set
\* to b, and n1 gets the synapses of script.  n1 can then read three
\* different values: b from s1, a from n2 and 0 from itself.
Built(lc1, script, a, b) ==
    LET w0 == Fresh(lc1)
        w1 == create_synapse(w0, "n2", 60, "Excitatory", "s1")
        w2 == create_synapse(w1, "n2", 60, "Excitatory", "n1")
        w3 == set_measure(w2, "s1", a)
        w4 == run_static_cycle(w3, "n2", "Odd")
        w5 == set_measure(w4, "s1", b)
    IN  build(w5, "n1", script)

\* The program starts with the neurons and the sensor just created, or with
\* the circuit built and ticked once, n1 still without synapses.
Init ==
    \/ Starts(Fresh(3))
    \/ \E a \in SensorMeasures, b \in {0} \cup SensorMeasures :
           Starts(Built(3, <<>>, a, b))

\* One call of the driver: the program goes from World to w.  A panic ends
\* the program.
Call(w, op, on, cycle, arg, returned) ==
    /\ ~panicked
    /\ ops < MaxOps
    /\ Becomes(w)
    /\ last' = [op |-> op, on |-> on, cycle |-> cycle, arg |-> arg,
                 returned |-> returned,
                 twice |-> (last.op = op /\ last.on = on /\ last.cycle = cycle
                               /\ last.arg = arg)]
    /\ ops' = ops + 1

\* A call with a cycle at most, that returns nothing.
Step(w, op, on, cycle) == Call(w, op, on, cycle, <<>>, <<>>)

CreateSynapse ==
    \E n \in Neurons, sw \in StartingWeights, t \in SynapticTypes, input \in Inputs :
        /\ Len(synapses[n]) < MaxSynapses
        /\ Call(create_synapse(World, n, sw, t, input), "create_synapse", n, "-",
                <<sw, t, input>>, <<>>)

SetMeasure ==
    \E s \in Sensors, m \in SensorMeasures :
        Call(set_measure(World, s, m), "set_measure", s, "-", <<m>>, <<>>)

GetMeasure ==
    \E input \in Inputs, c \in Cycles :
        LET r == NeuronicInput_get_measure(World, input, c)
        IN  Call(r.world, "get_measure", input, c, <<>>, <<r.value>>)

RunStaticCycle ==
    \E n \in Neurons, c \in Cycles :
        Step(run_static_cycle(World, n, c), "run_static_cycle", n, c)

UpdateSynapses ==
    \E n \in Neurons, c \in Cycles :
        Step(update_synapses(World, n, c), "update_synapses", n, c)

RunCycle ==
    \E n \in Neurons, c \in Cycles :
        Step(run_cycle(World, n, c), "run_cycle", n, c)

Clear ==
    \E n \in Neurons :
        Step(clear(World, n), "clear", n, "-")

TickStatic ==
    \E o \in Orders, c \in Cycles :
        Step(tick(World, o, c, FALSE), "tick_static", "-", c)

TickLearning ==
    \E o \in Orders, c \in Cycles :
        Step(tick(World, o, c, TRUE), "tick_learning", "-", c)

Next ==
    \/ CreateSynapse
    \/ SetMeasure
    \/ GetMeasure
    \/ RunStaticCycle
    \/ UpdateSynapses
    \/ RunCycle
    \/ Clear
    \/ TickStatic
    \/ TickLearning

Spec == Init /\ [][Next]_vars

\* ------------------------------------------------------------- aggregation alone
\* A second specification for the claims about run_static_cycle as a function
\* of the synapses and the source values: it starts from the built circuits
\* with up to MaxSynapses synapses on n1 and only aggregates.

InitAgg ==
    \E script \in Scripts, a \in SensorMeasures, b \in SensorMeasures :
        Starts(Built(3, script, a, b))

AggregateN1 ==
    \E c \in Cycles :
        /\ ops < MaxRuns
        /\ Step(run_static_cycle(World, "n1", c), "run_static_cycle", "n1", c)

NextAgg == AggregateN1

SpecAgg == InitAgg /\ [][NextAgg]_vars

\* ------------------------------------------------------------- learning ticks
\* A third specification for the claims about the learning rule: it starts
\* from the same built circuits, n1 with learning_constant 1, and runs
\* learning ticks (run_cycle) of n1.

InitLearn ==
    \E script \in Scripts, a \in SensorMeasures, b \in SensorMeasures :
        Starts(Built(1, script, a, b))

LearnN1 ==
    \E c \in Cycles :
        /\ ops < MaxRuns
        /\ Step(run_cycle(World, "n1", c), "run_cycle", "n1", c)

NextLearn == LearnN1

SpecLearn == InitLearn /\ [][NextLearn]_vars

\* ------------------------------------------------------------- thresholds
\* A fourth specification for the claims that speak of every fire_threshold:
\* the neurons are created with a negative, a zero or a positive threshold,
\* and the driver makes the calls of Next.

Thresholds == {0 - 60, 0, 100}

InitThresholds ==
    \E th1 \in Thresholds, th2 \in Thresholds :
        Starts(New([n \in Neurons |-> IF n = "n1" THEN th1 ELSE th2],
                   [n \in Neurons |-> 80],
                   [n \in Neurons |-> 3]))

SpecThresholds == InitThresholds /\ [][Next]_vars

\* ------------------------------------------------------------- claims

\* The value a source holds, in the current state, for the cycle other than
\* cycle (a sensor holds one value for both).
OtherPhaseValue(input, cycle) ==
    IF input \in Sensors
    THEN measure[input]
    ELSE internal_measure[input][IF cycle = "Even" THEN "Odd" ELSE "Even"]

SignedWeight(synapse) ==
    IF synapse.synaptic_type = "Inhibitory" THEN 0 - synapse.weight ELSE synapse.weight

\* The impulses neuron n is expected to consume when it aggregates on cycle
\* in the current state.
ExpectedImpulses(n, cycle) ==
    [i \in 1..Len(synapses[n]) |->
        [measure |-> OtherPhaseValue(synapses[n][i].pre_synaptic_neuron, cycle),
         weight |-> SignedWeight(synapses[n][i])]]

LearningOps == {"update_synapses", "run_cycle", "tick_learning"}
AggregationOps == {"run_static_cycle", "run_cycle"}
TickOps == {"tick_static", "tick_learning"}

\* The neurons the call l has run a learning step on, and those it has
\* aggregated.
Learned(l) == IF l.op = "tick_learning" THEN Neurons
              ELSE IF l.op \in LearningOps THEN {l.on} ELSE {}

Aggregated(l) == IF l.op \in TickOps THEN Neurons
                 ELSE IF l.op \in AggregationOps THEN {l.on} ELSE {}

LearnedNeurons == Learned(last)

\* C1 (as claimed): after a learning update (update_synapses, run_cycle) that
\* did not panic, every synapse of the neuron has 0 <= weight <
\* max_synapse_weight, the upper bound strict.
C1_WeightStrictlyUnderMax ==
    ~panicked =>
        \A n \in LearnedNeurons : \A i \in 1..Len(synapses[n]) :
            /\ 0 <= synapses[n][i].weight
            /\ synapses[n][i].weight < max_synapse_weight[n]

\* The reference of C2: repeatedly one of the remaining impulses (rem, their
\* positions) of largest measure is taken and its signed weight added to the
\* running total; the output is the measure of the first impulse at which
\* the total is >= threshold, and 0 when none is left.  The set holds the
\* output for every order in which impulses of equal measure can be taken.
RECURSIVE ReferenceOutputs(_, _, _, _)
ReferenceOutputs(imps, rem, total, threshold) ==
    IF rem = {}
    THEN {0}
    ELSE LET top == {i \in rem : \A j \in rem : imps[i].measure >= imps[j].measure}
         IN  UNION {IF total + imps[i].weight >= threshold
                    THEN {imps[i].measure}
                    ELSE ReferenceOutputs(imps, rem \ {i}, total + imps[i].weight, threshold) :
                    i \in top}

\* C2: run_static_cycle(P) stores in slot P the measure of the first impulse,
\* taken in descending order of measure, at which the running total of the
\* signed weights is >= fire_threshold, and 0 when the total never reaches
\* it (impulses of equal measure taken in one of their orders).  A call that
\* panics stores nothing.
C2_GreedySelection ==
    [][(last'.op = "run_static_cycle" /\ ~panicked') =>
          \A imps \in {ExpectedImpulses(last'.on, last'.cycle)} :
              internal_measure'[last'.on][last'.cycle] \in
                  ReferenceOutputs(imps, DOMAIN imps, 0, fire_threshold[last'.on])]_vars

\* The case of C2: three synapses, one of them Inhibitory, and the neuron
\* fired on an impulse that was not the largest.
C2_Witness ==
    /\ last.op = "run_static_cycle"
    /\ ~panicked
    /\ Len(synapses[last.on]) = 3
    /\ \E i \in 1..3 : synapses[last.on][i].synaptic_type = "Inhibitory"
    /\ internal_measure[last.on][last.cycle] # 0
    /\ \E i \in 1..3 :
          synapses[last.on][i].last_impulse[1].measure >
              internal_measure[last.on][last.cycle]

\* C3: after run_static_cycle(P) (alone, in run_cycle or in a tick) slot P of
\* the neuron holds 0 or the measure of one of the impulses of that pass, the
\* value one of its sources held for the other cycle.
C3_OutputIsAnImpulseMeasure ==
    [][~panicked' => \A n \in Aggregated(last') :
          internal_measure'[n][last'.cycle] \in
              {0} \cup {OtherPhaseValue(synapses[n][i].pre_synaptic_neuron, last'.cycle) :
                           i \in 1..Len(synapses[n])}]_vars

\* The case of C3: a neuron with two synapses or more has fired.
C3_Witness ==
    /\ last.op = "run_static_cycle"
    /\ ~panicked
    /\ Len(synapses[last.on]) >= 2
    /\ internal_measure[last.on][last.cycle] # 0

\* C4: a tick of every neuron on one cycle, with or without learning, leaves
\* the same synapses and the same buffers whatever the order of the neurons;
\* a tick that panics in one order panics in every order.
C4_TickOrderIndependent ==
    [][last'.op \in TickOps =>
          \A o \in Orders :
              LET w == tick(World, o, last'.cycle, last'.op = "tick_learning")
              IN  /\ panicked' = w.panicked
                  /\ ~panicked' => /\ synapses' = w.synapses
                                   /\ internal_measure' = w.internal_measure]_vars

\* The case of C4: n2 feeds n1, a learning tick has run both, and n2 has fired
\* in it.
C4_Witness ==
    /\ last.op = "tick_learning"
    /\ ~panicked
    /\ \E i \in 1..Len(synapses["n1"]) : synapses["n1"][i].pre_synaptic_neuron = "n2"
    /\ internal_measure["n2"][last.cycle] # 0

\* C5: every impulse a neuron generates when it aggregates on P, and caches
\* in last_impulse, has as measure the value its source held for the other
\* cycle when the call (or the tick) began.
C5_OnePhaseLag ==
    [][~panicked' => \A n \in Aggregated(last') : \A i \in 1..Len(synapses[n]) :
          /\ Len(synapses'[n][i].last_impulse) = 1
          /\ synapses'[n][i].last_impulse[1].measure =
                 OtherPhaseValue(synapses[n][i].pre_synaptic_neuron, last'.cycle)]_vars

\* The case of C5: after a read-only tick, a synapse whose source is a neuron
\* that has just stored a new value for P carries the source's value for the
\* other cycle.
C5_Witness ==
    /\ last.op = "tick_static"
    /\ ~panicked
    /\ \E n \in Neurons : \E i \in 1..Len(synapses[n]) :
          LET src == synapses[n][i].pre_synaptic_neuron
          IN  /\ src \in Neurons
              /\ src # n
              /\ internal_measure[src][last.cycle] # 0
              /\ synapses[n][i].last_impulse[1].measure # internal_measure[src][last.cycle]

\* What the last call tells about the cached impulses of neuron n for P: they
\* are absent, or they were consumed by a learning step, or they were
\* populated by an aggregation on the other cycle.
NotPopulatedFor(n, cycle) ==
    \/ \E i \in 1..Len(synapses[n]) : synapses[n][i].last_impulse = <<>>
    \/ /\ synapses[n] # <<>>
       /\ n \in Learned(last)
    \/ /\ synapses[n] # <<>>
       /\ last.op \in {"run_static_cycle", "tick_static"}
       /\ n \in Aggregated(last)
       /\ last.cycle # cycle

RuleWeight(lc, max, w, m, F) ==
    IF m < F THEN w + lc * (max - w) * m
             ELSE w + lc * (max - w) * (2 * F - m)

\* The synapses of n a learning step reaches: all of them, or those before
\* the first without a cached impulse.
Reached(n) ==
    {i \in 1..Len(synapses[n]) :
        \A j \in 1..i : synapses[n][j].last_impulse # <<>>}

\* The weight RuleWeight gives synapse i of n in the step from the current
\* state to the next, F and m read in the next state (the step leaves both
\* as the aggregation set them).
RuleWeightAt(n, i, cycle) ==
    IF synapses'[n][i].last_impulse = <<>> THEN synapses[n][i].weight
    ELSE RuleWeight(learning_constant[n], max_synapse_weight[n], synapses[n][i].weight,
                    synapses'[n][i].last_impulse[1].measure,
                    internal_measure'[n][cycle])

\* C7: a learning step gives every synapse, Excitatory or Inhibitory, the
\* weight w + lc*(max - w)*m when m < F and w + lc*(max - w)*(2F - m)
\* otherwise, whenever that weight needs no clamping.
C7_LearningRule ==
    [][(last'.op = "run_cycle" /\ ~panicked') =>
          \A i \in 1..Len(synapses[last'.on]) :
              LET r == RuleWeightAt(last'.on, i, last'.cycle)
              IN  (0 <= r /\ r <= max_synapse_weight[last'.on])
                      => synapses'[last'.on][i].weight = r]_vars

\* The case of C7: after a learning tick in which the neuron fired F, an
\* Inhibitory synapse with 0 < m < F, now at the maximum, and a synapse with
\* m >= F.
C7_Witness ==
    /\ last.op = "run_cycle"
    /\ ~panicked
    /\ LET n == last.on
           F == internal_measure[n][last.cycle]
       IN  /\ \E i \in 1..Len(synapses[n]) :
                 /\ 0 < synapses[n][i].last_impulse[1].measure
                 /\ synapses[n][i].last_impulse[1].measure < F
                 /\ synapses[n][i].weight = max_synapse_weight[n]
                 /\ synapses[n][i].synaptic_type = "Inhibitory"
           /\ \E i \in 1..Len(synapses[n]) :
                 synapses[n][i].last_impulse[1].measure >= F

\* C8: a learning step stores max_synapse_weight - 0.1 when the updated
\* weight is greater than max_synapse_weight, 0 when it is below 0, and the
\* updated weight otherwise.
C8_Clamping ==
    [][(last'.op = "update_synapses" \/ ~panicked') =>
       \A n \in Learned(last') : \A i \in Reached(n) :
          LET r == IF last'.op = "update_synapses"
                   THEN RuleWeight(learning_constant[n], max_synapse_weight[n],
                                   synapses[n][i].weight,
                                   synapses[n][i].last_impulse[1].measure,
                                   internal_measure[n][last'.cycle])
                   ELSE RuleWeightAt(n, i, last'.cycle)
          IN  synapses'[n][i].weight =
                  IF r > max_synapse_weight[n] THEN max_synapse_weight[n] - 1
                  ELSE IF r < 0 THEN 0 ELSE r]_vars

\* The case of C8: a learning step has left a weight just under the maximum,
\* a value only the clamp produces.
C8_Witness ==
    /\ last.op \in LearningOps
    /\ ~panicked
    /\ \E n \in Learned(last) : \E i \in 1..Len(synapses[n]) :
          synapses[n][i].weight = max_synapse_weight[n] - 1

\* C9: after clear() get_measure of the neuron is 0 for both cycles, and a
\* neuron just created reads 0 for both.
C9_ClearReadsZero ==
    /\ last.op = "clear" => \A c \in Cycles : get_measure(World, last.on, c) = 0
    /\ (last.op = "new" /\ synapses = [n \in Neurons |-> <<>>]) =>
           \A n \in Neurons, c \in Cycles : get_measure(World, n, c) = 0

\* The case of C9: n2, which had fired on its synapse from s1 and stored the
\* value for Odd, was cleared by the first call.
C9_Witness ==
    /\ last.op = "clear"
    /\ last.on = "n2"
    /\ ops = 1
    /\ synapses["n2"] # <<>>
    /\ synapses["n2"][1].last_impulse # <<>>
    /\ synapses["n2"][1].last_impulse[1].measure # 0

\* C10: clear() on a neuron changes nothing but the two slots of that neuron:
\* the synapses of every neuron (weights, types, sources, cached impulses,
\* number and order), the other neurons' slots and the sensors are the same.
C10_ClearFrame ==
    [][last'.op = "clear" =>
          /\ synapses' = synapses
          /\ measure' = measure
          /\ \A n \in Neurons \ {last'.on} : internal_measure'[n] = internal_measure[n]
          /\ fire_threshold' = fire_threshold
          /\ max_synapse_weight' = max_synapse_weight
          /\ learning_constant' = learning_constant]_vars

\* The case of C10: a neuron with a learned weight and a cached impulse was
\* cleared.
C10_Witness ==
    /\ last.op = "clear"
    /\ \E i \in 1..Len(synapses[last.on]) :
          /\ synapses[last.on][i].last_impulse # <<>>
          /\ synapses[last.on][i].weight \notin StartingWeights

\* C11: run_static_cycle(P) or run_cycle(P) on a neuron, alone or in a tick,
\* leaves the value of that neuron's slot for the other cycle as it was.
C11_OtherSlotUnchanged ==
    [][\A n \in Aggregated(last') : \A c \in Cycles \ {last'.cycle} :
          internal_measure'[n][c] = internal_measure[n][c]]_vars

\* The case of C11: a neuron whose other slot held a value has fired a
\* different value on P.
C11_Witness ==
    /\ last.op \in AggregationOps
    /\ ~panicked
    /\ \A c \in Cycles : internal_measure[last.on][c] # 0
    /\ internal_measure[last.on]["Even"] # internal_measure[last.on]["Odd"]

\* C12: run_static_cycle(P) run a second time in a row leaves in slot P the
\* value the first run left, and the value a run stores is the same whatever
\* slot P held before the run.
C12_Idempotent ==
    [][(last'.op = "run_static_cycle" /\ ~panicked') =>
          LET n == last'.on
              P == last'.cycle
          IN  /\ last'.twice => internal_measure'[n][P] = internal_measure[n][P]
              /\ \A v \in {0, 7} \cup SensorMeasures :
                     run_static_cycle([World EXCEPT !.internal_measure[n][P] = v],
                                      n, P).internal_measure[n][P]
                         = internal_measure'[n][P]]_vars

\* The case of C12: the second of two runs in a row, of a neuron that fires.
C12_Witness ==
    /\ last.op = "run_static_cycle"
    /\ last.twice
    /\ ~panicked
    /\ synapses[last.on] # <<>>
    /\ internal_measure[last.on][last.cycle] # 0

\* C13: a neuron with no synapses stores 0 in slot P on every aggregation on
\* P, whatever its fire_threshold: positive, zero or negative.
C13_NoSynapsesStoresZero ==
    [][~panicked' => \A n \in Aggregated(last') :
          synapses'[n] = <<>> => internal_measure'[n][last'.cycle] = 0]_vars

\* The case of C13: a read-only tick of two neurons without synapses, one
\* with threshold zero and one with a negative threshold.
C13_Witness ==
    /\ last.op = "tick_static"
    /\ \A n \in Neurons : synapses[n] = <<>>
    /\ fire_threshold["n1"] = 0
    /\ fire_threshold["n2"] < 0

\* C14 (as claimed): run_static_cycle(P) completes without failure on every
\* wiring create_synapse can build, a neuron that is its own source included.
C14_CyclicWiringCompletes ==
    [][last'.op = "run_static_cycle" => ~panicked']_vars

\* C15: get_measure(P) on a neuron or a sensor returns the value stored for
\* P (the one value of a sensor) and changes nothing: buffers, synapses
\* (weights and cached impulses), sensors and parameters are as they were.
C15_ReadsChangeNothing ==
    [][last'.op = "get_measure" =>
          /\ last'.returned = <<IF last'.on \in Sensors
                                 THEN measure[last'.on]
                                 ELSE internal_measure[last'.on][last'.cycle]>>
          /\ UNCHANGED <<fire_threshold, max_synapse_weight, learning_constant,
                         synapses, internal_measure, measure, panicked>>]_vars

\* The case of C15: a neuron that would fire another value if it aggregated
\* now is read, and returns the value it stored.
C15_Witness ==
    /\ last.op = "get_measure"
    /\ last.on \in Neurons
    /\ last.returned # <<0>>
    /\ \A w \in {run_static_cycle(World, last.on, last.cycle)} :
           /\ ~w.panicked
           /\ <<w.internal_measure[last.on][last.cycle]>> # last.returned

\* C16: a sensor just created reads 0 on both cycles; after set_measure(m) it
\* reads m on both cycles, whatever was set before; a read of a sensor
\* returns that value; and no other call changes the value of a sensor.
C16_SensorPhaseInsensitive ==
    /\ (synapses = [n \in Neurons |-> <<>>]) =>
           \A s \in Sensors, c \in Cycles : get_measure(World, s, c) = 0
    /\ [][/\ (last'.op = "set_measure") =>
                 (/\ \A c \in Cycles : get_measure(World', last'.on, c) = last'.arg[1]
                  /\ \A s \in Sensors \ {last'.on} : measure'[s] = measure[s])
          /\ (last'.op # "set_measure") => (measure' = measure)
          /\ (last'.op = "get_measure" /\ last'.on \in Sensors) =>
                 (last'.returned = <<measure[last'.on]>>)]_vars

\* The case of C16: the sensor read 2 when n2 was ticked, was then set to 1,
\* and a read on Odd returns 1.
C16_Witness ==
    /\ last.op = "get_measure"
    /\ last.on = "s1"
    /\ last.cycle = "Odd"
    /\ last.returned = <<1>>
    /\ synapses["n2"] # <<>>
    /\ synapses["n2"][1].pre_synaptic_neuron = "s1"
    /\ synapses["n2"][1].last_impulse = <<[measure |-> 2, weight |-> 60]>>

\* C17 (as claimed): the signed contribution of the impulse a synapse
\* generates, the weight of the impulse, is the value read from the source
\* times the weight of the synapse, negative for an Inhibitory synapse.
C17_ContributionScaledByValue ==
    [][~panicked' => \A n \in Aggregated(last') : \A i \in 1..Len(synapses[n]) :
          synapses'[n][i].last_impulse[1].weight =
              OtherPhaseValue(synapses[n][i].pre_synaptic_neuron, last'.cycle)
                  * SignedWeight(synapses[n][i])]_vars

\* C17 (amended): the impulse a synapse generates carries the value read
\* from the source, unscaled, as its measure, and the weight of the synapse,
\* negated for an Inhibitory synapse, as its weight: the contribution is the
\* signed weight whatever the value read.
C17_ContributionIsSignedWeight ==
    [][~panicked' => \A n \in Aggregated(last') : \A i \in 1..Len(synapses[n]) :
          synapses'[n][i].last_impulse =
              <<[measure |-> OtherPhaseValue(synapses[n][i].pre_synaptic_neuron,
                                              last'.cycle),
                 weight |-> SignedWeight(synapses[n][i])]>>]_vars

\* The case of C17: an Inhibitory synapse whose source read 2 and an
\* Excitatory synapse whose source read 0 have generated impulses that carry
\* their signed weights, neither doubled nor zero.
C17_Witness ==
    /\ last.op = "run_static_cycle"
    /\ ~panicked
    /\ \E i \in 1..Len(synapses[last.on]) :
          /\ synapses[last.on][i].synaptic_type = "Inhibitory"
          /\ synapses[last.on][i].weight > 0
          /\ synapses[last.on][i].last_impulse =
                 <<[measure |-> 2, weight |-> 0 - synapses[last.on][i].weight]>>
    /\ \E i \in 1..Len(synapses[last.on]) :
          /\ synapses[last.on][i].synaptic_type = "Excitatory"
          /\ synapses[last.on][i].last_impulse =
                 <<[measure |-> 0, weight |-> synapses[last.on][i].weight]>>

\* C18: create_synapse adds one synapse at the end of the neuron's list, with
\* the given starting weight, type and source and no cached impulse, and
\* leaves the synapses already there, the other neurons' synapses and every
\* buffer slot as they were; no call removes or reorders a synapse.
C18_AppendOnly ==
    [][/\ (last'.op = "create_synapse") =>
              (/\ synapses'[last'.on] =
                      Append(synapses[last'.on],
                             [weight |-> last'.arg[1], synaptic_type |-> last'.arg[2],
                              pre_synaptic_neuron |-> last'.arg[3],
                              last_impulse |-> <<>>])
               /\ \A n \in Neurons \ {last'.on} : synapses'[n] = synapses[n]
               /\ internal_measure' = internal_measure)
       /\ \A n \in Neurons :
              /\ Len(synapses'[n]) >= Len(synapses[n])
              /\ \A i \in 1..Len(synapses[n]) :
                     /\ synapses'[n][i].synaptic_type = synapses[n][i].synaptic_type
                     /\ synapses'[n][i].pre_synaptic_neuron =
                            synapses[n][i].pre_synaptic_neuron]_vars

\* The case of C18: a third synapse was attached to a neuron whose two
\* synapses carry cached impulses.
C18_Witness ==
    /\ last.op = "create_synapse"
    /\ Len(synapses[last.on]) = 3
    /\ synapses[last.on][1].last_impulse # <<>>
    /\ synapses[last.on][2].last_impulse # <<>>
    /\ synapses[last.on][3].last_impulse = <<>>
    /\ synapses[last.on][3].synaptic_type = "Inhibitory"
    /\ internal_measure[last.on]["Odd"] # 0

\* C19 (as claimed): the value run_static_cycle stores is the one output of
\* the selection for every order in which impulses of equal measure can be
\* consumed.
C19_TieOrderNotObservable ==
    [][(last'.op = "run_static_cycle" /\ ~panicked') =>
          \A imps \in {ExpectedImpulses(last'.on, last'.cycle)} :
              ReferenceOutputs(imps, DOMAIN imps, 0, fire_threshold[last'.on])
                  = {internal_measure'[last'.on][last'.cycle]}]_vars

\* C20: a slot of a neuron changes only in that neuron's own aggregation on
\* the cycle of the slot (alone, in run_cycle or in a tick) or in its own
\* clear: update_synapses, create_synapse, set_measure, get_measure and
\* every call on another neuron leave both slots as they were.
C20_SlotsWrittenByOwnerOnly ==
    [][\A n \in Neurons, c \in Cycles :
          internal_measure'[n][c] # internal_measure[n][c] =>
              \/ n \in Aggregated(last') /\ c = last'.cycle
              \/ last'.op = "clear" /\ last'.on = n]_vars

\* The case of C20: update_synapses has changed a weight of a neuron whose
\* slot for the cycle holds the value it fired.
C20_Witness ==
    /\ last.op = "update_synapses"
    /\ ~panicked
    /\ internal_measure[last.on][last.cycle] # 0
    /\ \E i \in 1..Len(synapses[last.on]) :
          synapses[last.on][i].weight \notin StartingWeights

\* C21: the weight of a synapse changes only in a learning step of the neuron
\* that owns it (update_synapses, run_cycle, a learning tick):
\* run_static_cycle and read-only ticks change no weight, and no call on one
\* neuron changes a weight of another.
C21_WeightsChangedByOwnLearningOnly ==
    [][\A n \in Neurons : \A i \in 1..Len(synapses[n]) :
          synapses'[n][i].weight # synapses[n][i].weight => n \in Learned(last')]_vars

\* The case of C21: both neurons have a synapse from the sensor, and one of
\* them has fired in a run_static_cycle.
C21_Witness ==
    /\ last.op = "run_static_cycle"
    /\ ~panicked
    /\ internal_measure[last.on][last.cycle] # 0
    /\ \A n \in Neurons : \E i \in 1..Len(synapses[n]) :
          synapses[n][i].pre_synaptic_neuron = "s1"

\* C22: a synapse whose weight equals max_synapse_weight keeps that weight
\* through every learning step, whatever its cached measure and the output.
C22_MaxWeightIsFixedPoint ==
    [][\A n \in Learned(last') : \A i \in 1..Len(synapses[n]) :
          synapses[n][i].weight = max_synapse_weight[n] =>
              synapses'[n][i].weight = max_synapse_weight[n]]_vars

\* The case of C22: a learning step that would move any other weight (the
\* measure m and 2F - m are not 0) has run over a synapse at the maximum,
\* next to a synapse whose weight it changed.
C22_Witness ==
    /\ last.op \in LearningOps
    /\ last.op # "tick_learning"
    /\ ~panicked
    /\ LET n == last.on
           F == internal_measure[n][last.cycle]
       IN  /\ \E i \in 1..Len(synapses[n]) :
                 /\ synapses[n][i].weight = max_synapse_weight[n]
                 /\ synapses[n][i].last_impulse[1].measure # 0
                 /\ synapses[n][i].last_impulse[1].measure # 2 * F
                 /\ synapses[n][i].last_impulse[1].weight = max_synapse_weight[n]
           /\ \E i \in 1..Len(synapses[n]) :
                 synapses[n][i].weight \notin StartingWeights

\* C23 (as claimed): an update_synapses that fails on a synapse without a
\* cached impulse has changed no weight of the neuron.
C23_FailedLearningChangesNothing ==
    [][(last'.op = "update_synapses" /\ panicked') =>
          \A i \in 1..Len(synapses[last'.on]) :
              synapses'[last'.on][i].weight = synapses[last'.on][i].weight]_vars

====
